---- MODULE Spec2Model ----
(***************************************************************************)
(* Model of FritzApi.js: one run of main() is an argument intake, the      *)
(* credential lookup or prompt, the login handshake of SessionID.create,   *)
(* the keychain update, one command request and the response formatting.   *)
(* JavaScript strings are sequences of one-character strings; numbers are  *)
(* exact rationals n/d (or NaN), which is exact for the decimal inputs     *)
(* and the half-degree arithmetic of the temperature codec.                *)
(***************************************************************************)
EXTENDS Integers, Sequences, FiniteSets, TLC

----------------------------------------------------------------------------
(* Bounds of the explored inputs *)

MaxRuns == 2
MaxBlockTime == 2
MaxChalLen == 2
MaxCelsius == 130
MaxFritz == 255

----------------------------------------------------------------------------
(* Program constants and settings *)

ZeroSid == "0000000000000000"
FritzOff == 253
FritzOn == 254
FritzMin == 16
FritzMax == 56

Str_sethkrtsoll == <<"s","e","t","h","k","r","t","s","o","l","l">>
Str_gethkrtsoll == <<"g","e","t","h","k","r","t","s","o","l","l">>
Str_setswitchon == <<"s","e","t","s","w","i","t","c","h","o","n">>
Str_off == <<"o","f","f">>
Str_on == <<"o","n">>
Str_0 == <<"0">>

----------------------------------------------------------------------------
(* JavaScript values: strings, numbers, NaN *)

StrV(s) == [t |-> "str", s |-> s, n |-> 0, d |-> 1]
NumV(n, d) == [t |-> "num", s |-> <<>>, n |-> n, d |-> d]
NaN == [t |-> "nan", s |-> <<>>, n |-> 0, d |-> 1]
IntV(i) == NumV(i, 1)

Digits == {"0","1","2","3","4","5","6","7","8","9"}

DigitVal(c) ==
  CASE c = "0" -> 0 [] c = "1" -> 1 [] c = "2" -> 2 [] c = "3" -> 3
    [] c = "4" -> 4 [] c = "5" -> 5 [] c = "6" -> 6 [] c = "7" -> 7
    [] c = "8" -> 8 [] c = "9" -> 9

(* String.prototype.toLowerCase on one character *)
LowerChar_Identity(c) == c
LowerChar(c) ==
  CASE c = "O" -> "o" [] c = "N" -> "n" [] c = "F" -> "f"
    [] c = "A" -> "a" [] OTHER -> c

toLowerCase(s) == [i \in 1..Len(s) |-> LowerChar(s[i])]

(* length of the longest prefix of s, from position i, made of digits *)
RECURSIVE DigitRun(_, _)
DigitRun(s, i) ==
  IF i <= Len(s) /\ s[i] \in Digits THEN 1 + DigitRun(s, i + 1) ELSE 0

RECURSIVE DigitsValue(_, _, _)
DigitsValue(s, i, k) ==
  IF k = 0 THEN 0 ELSE DigitsValue(s, i, k - 1) * 10 + DigitVal(s[i + k - 1])

RECURSIVE Pow10(_)
Pow10(k) == IF k = 0 THEN 1 ELSE 10 * Pow10(k - 1)

(* parseFloat: optional sign, digits, optional fraction; the longest      *)
(* numeric prefix is taken and the rest ignored; NaN without any digit.    *)
(* A number argument is first converted to its string and parses to       *)
(* itself.                                                                 *)
parseFloat(v) ==
  IF v.t # "str" THEN v
  ELSE
    LET s == v.s
        neg == Len(s) >= 1 /\ s[1] = "-"
        st == IF Len(s) >= 1 /\ s[1] \in {"-", "+"} THEN 2 ELSE 1
        ni == DigitRun(s, st)
        dot == st + ni <= Len(s) /\ s[st + ni] = "."
        nf == IF dot THEN DigitRun(s, st + ni + 1) ELSE 0
        ip == DigitsValue(s, st, ni)
        fp == DigitsValue(s, st + ni + 1, nf)
        mag == ip * Pow10(nf) + fp
    IN IF ni = 0 /\ nf = 0 THEN NaN
       ELSE NumV(IF neg THEN 0 - mag ELSE mag, Pow10(nf))

(* x === k for a JavaScript value x and an integer literal k *)
NumEq(x, k) == x.t = "num" /\ x.n = k * x.d
NumLt(x, k) == x.t = "num" /\ x.n < k * x.d
NumGt(x, k) == x.t = "num" /\ x.n > k * x.d

(* Math.round(x * 2): the nearest integer to 2x, halves rounded up *)
RoundTwice_WholeDegree(x) == 2 * ((2 * x.n + x.d) \div (2 * x.d))
RoundTwice(x) == (4 * x.n + x.d) \div (2 * x.d)

(* converted < 16 *)
BelowMin_Celsius(x) == NumLt(x, 8)
BelowMin(x) == NumLt(x, FritzMin)

(* converted > 56 *)
AboveMax_Inclusive(x) == ~NumLt(x, FritzMax)
AboveMax_Never(x) == FALSE
AboveMax(x) == NumGt(x, FritzMax)

(* celsiusOnOffToFritz: a string is "on"/"off" or an error; a number is    *)
(* rounded to the half degree and mapped by 16 + (c - 8) / 0.5, then       *)
(* clamped to 253 below 16 and to 254 above 56.  The result is             *)
(* [err |-> TRUE] for the thrown error, else [err |-> FALSE, val |-> v].   *)
celsiusOnOffToFritz(celsius_temp) ==
  LET isStr == celsius_temp.t = "str"
      low == IF isStr THEN toLowerCase(celsius_temp.s) ELSE <<>>
      bad == isStr /\ low # Str_off /\ low # Str_on
      c == IF ~isStr THEN celsius_temp
           ELSE IF low = Str_off THEN IntV(FritzOff) ELSE IntV(FritzOn)
      sentinel == NumEq(c, FritzOff) \/ NumEq(c, FritzOn)
      \* converted = Math.round(c * 2) / 2 ; converted = 16 + (converted - 8) / 0.5
      half == RoundTwice(c)
      mapped == IF c.t = "nan" THEN NaN
                ELSE IF sentinel
                     THEN IntV(IF NumEq(c, FritzOff) THEN FritzOff ELSE FritzOn)
                ELSE IntV(FritzMin + (half - 2 * 8))
      clamped == IF BelowMin(mapped) THEN IntV(FritzOff)
                 ELSE IF AboveMax(mapped) /\ ~NumEq(mapped, FritzOff)
                      THEN IntV(FritzOn)
                 ELSE mapped
  IN IF bad THEN [err |-> TRUE, val |-> NaN]
     ELSE [err |-> FALSE, val |-> clamped]

----------------------------------------------------------------------------
(* JavaScript objects: the own properties as a sequence of [k, v] pairs in *)
(* insertion order.  undefined / null is the value None.                   *)

None == [t |-> "none", s |-> <<>>, n |-> 0, d |-> 1]

Has(obj, key) == \E i \in 1..Len(obj) : obj[i].k = key

Get(obj, key) ==
  IF Has(obj, key)
  THEN obj[CHOOSE i \in 1..Len(obj) : obj[i].k = key].v
  ELSE None

(* obj[key] = val: an existing property keeps its position *)
Put(obj, key, val) ==
  IF Has(obj, key)
  THEN [i \in 1..Len(obj) |-> IF obj[i].k = key THEN [k |-> key, v |-> val] ELSE obj[i]]
  ELSE Append(obj, [k |-> key, v |-> val])

(* delete obj[key] *)
RECURSIVE Delete(_, _)
Delete(obj, key) ==
  IF obj = <<>> THEN <<>>
  ELSE IF Head(obj).k = key THEN Delete(Tail(obj), key)
  ELSE <<Head(obj)>> \o Delete(Tail(obj), key)

P(key, val) == [k |-> key, v |-> val]

----------------------------------------------------------------------------
(* Inputs of a run *)

Verbs == {Str_sethkrtsoll, Str_gethkrtsoll, Str_setswitchon}

ParamTexts ==
  { <<"1","9",".","5">>, <<"7",".","8">>, <<"4","0">>, <<"8">>, <<"2","8">>,
    <<"o","n">>, <<"O","N">>, <<"o","N">>, <<"O","f","f">>, <<"o","f","f">>,
    <<"O","F","F">>, <<"0">>,
    <<"a","b","c">>, <<"1","2","a">>, <<"-","5">>, <<"2","5","3">> }

AinText == <<"0","1","2","3","4">>

(* the start arguments: a verb, optionally an ain and a param, optionally  *)
(* the scriptName of the URL scheme                                        *)
StartArguments ==
  { <<P("switchcmd", StrV(v))>> : v \in Verbs }
  \cup { <<P("switchcmd", StrV(Str_setswitchon)), P("2", StrV(<<"b">>)), P("1", StrV(<<"a">>))>> }
  \cup { <<P("ain", StrV(AinText)), P("switchcmd", StrV(v))>> : v \in Verbs }
  \cup { <<P("ain", StrV(AinText)), P("switchcmd", StrV(v)), P("param", StrV(p))>> :
           v \in Verbs, p \in ParamTexts }
  \cup { <<P("scriptName", StrV(<<"F">>)), P("switchcmd", StrV(v)), P("param", StrV(p))>> :
           v \in Verbs, p \in {<<"1","9",".","5">>, <<"a","b","c">>} }

Users == {"user"}
Passwords == {"pw"}
Credentials == [user : Users, pass : Passwords]
(* Keychain.get throws for a missing key: getRememberedCredentials is      *)
(* undefined (FALSE here) unless both keys are stored                      *)
HasRemembered(kc) == kc.user # "" /\ kc.pass # ""
NoCredentials == [user |-> "", pass |-> ""]

DigitChar(i) ==
  CASE i = 0 -> "0" [] i = 1 -> "1" [] i = 2 -> "2" [] i = 3 -> "3"
    [] i = 4 -> "4" [] i = 5 -> "5" [] i = 6 -> "6" [] i = 7 -> "7"
    [] i = 8 -> "8" [] i = 9 -> "9"

(* text of the BlockTime element, or None when the element is absent *)
BlockTimeValues == {None} \cup { StrV(<<DigitChar(i)>>) : i \in 0..MaxBlockTime }

ChalAlphabet == {"2", "$", "a"}
WellFormedPbkdf2 == <<"2","$","1","$","a","$","1","$","b">>

SeqsUpTo(S, n) == UNION { [1..m -> S] : m \in 1..n }

(* text of the Challenge element, or None when the element is absent *)
ChallengeValues ==
  {None} \cup { StrV(c) : c \in SeqsUpTo(ChalAlphabet, MaxChalLen) \cup {WellFormedPbkdf2} }

Tokens == {"a1b2c3d4e5f60718"}
(* text of the SID element, or None when the element is absent *)
SidValues == {None} \cup { StrV(<<x>>) : x \in Tokens \cup {ZeroSid} }

RawResponses == { <<"3","8">>, <<"2","5","3">>, <<"2","5","4">>, <<"1">>, <<"i","n","v","a","l">> }

----------------------------------------------------------------------------
(* Conversions to string *)

RECURSIVE NatToStr(_)
NatToStr(i) == IF i < 10 THEN <<DigitChar(i)>> ELSE NatToStr(i \div 10) \o <<DigitChar(i % 10)>>

(* String(x) for the values of the model: whole numbers and halves         *)
ToStr(x) ==
  CASE x.t = "str" -> x.s
    [] x.t = "nan" -> <<"N","a","N">>
    [] x.t = "none" -> <<"n","u","l","l">>
    [] x.t = "num" ->
         LET twice == (2 * x.n) \div x.d
             mag == IF twice < 0 THEN 0 - twice ELSE twice
             sign == IF twice < 0 THEN <<"-">> ELSE <<>>
         IN sign \o NatToStr(mag \div 2) \o (IF mag % 2 = 1 THEN <<".","5">> ELSE <<>>)

(* parseInt: optional sign and the longest prefix of digits, else NaN *)
parseInt(s) ==
  LET neg == Len(s) >= 1 /\ s[1] = "-"
      st == IF Len(s) >= 1 /\ s[1] \in {"-", "+"} THEN 2 ELSE 1
      ni == DigitRun(s, st)
      mag == DigitsValue(s, st, ni)
  IN IF ni = 0 THEN NaN ELSE IntV(IF neg THEN 0 - mag ELSE mag)

fritzToCelsiusOnOff_Truncating(fritz_temp) ==
  LET f == parseInt(fritz_temp)
  IN IF NumEq(f, FritzOff) THEN StrV(<<"O","F","F">>)
     ELSE IF NumEq(f, FritzOn) THEN StrV(<<"O","N">>)
     ELSE IF f.t = "nan" THEN NaN
     ELSE NumV(2 * (((f.n - FritzMin) \div 2) + 8), 2)

(* fritzToCelsiusOnOff: 253 and 254 become "OFF" and "ON", any other value *)
(* x becomes (x - 16) * 0.5 + 8                                            *)
fritzToCelsiusOnOff(fritz_temp) ==
  LET f == parseInt(fritz_temp)
  IN IF NumEq(f, FritzOff) THEN StrV(<<"O","F","F">>)
     ELSE IF NumEq(f, FritzOn) THEN StrV(<<"O","N">>)
     ELSE IF f.t = "nan" THEN NaN
     ELSE NumV((f.n - FritzMin) + 2 * 8, 2)

TemperatureVerbs ==
  { <<"g","e","t","t","e","m","p","e","r","a","t","u","r","e">>, Str_sethkrtsoll,
    Str_gethkrtsoll, <<"g","e","t","h","k","r","k","o","m","f","o","r","t">>,
    <<"g","e","t","h","k","r","a","b","s","e","n","k">> }

(* parseResponse *)
parseResponse(response, switchcmd, celsius) ==
  IF switchcmd.t = "str" /\ switchcmd.s \in TemperatureVerbs /\ celsius
  THEN LET r == fritzToCelsiusOnOff(response)
       IN <<"Response: ", "Heater set to ">> \o ToStr(r)
            \o (IF r.t \in {"num", "nan"} THEN <<"°C">> ELSE <<>>)
  ELSE <<"Response: ">> \o response

(* for (key in obj): integer-like keys in ascending order first, then the  *)
(* other keys in insertion order                                           *)
IndexKeys == {"1", "2"}
KeyIndex(key) == CASE key = "1" -> 1 [] key = "2" -> 2

RECURSIVE SelectOther(_)
SelectOther(obj) ==
  IF obj = <<>> THEN <<>>
  ELSE IF Head(obj).k \in IndexKeys THEN SelectOther(Tail(obj))
  ELSE <<Head(obj)>> \o SelectOther(Tail(obj))

RECURSIVE IndexProps(_, _)
IndexProps(obj, ks) ==
  IF ks = {} THEN <<>>
  ELSE LET m == CHOOSE x \in ks : \A y \in ks : KeyIndex(x) <= KeyIndex(y)
       IN <<P(m, Get(obj, m))>> \o IndexProps(obj, ks \ {m})

ForIn(obj) ==
  IndexProps(obj, {key \in IndexKeys : Has(obj, key)}) \o SelectOther(obj)

(* the request of sendCommand: sid=<sid> and then &key=value per property *)
CommandUrl(sidv, obj) ==
  [sid |-> ToStr(sidv),
   query |-> [i \in 1..Len(ForIn(obj)) |-> [k |-> ForIn(obj)[i].k, v |-> ToStr(ForIn(obj)[i].v)]]]

NoUrl == [sid |-> <<>>, query |-> <<>>]

(* arguments.param != null *)
HasParam_NoCheck(args) == TRUE
HasParam(args) == Get(args, "param") # None

(* parseArgs: [err |-> thrown message or <<>>, args |-> the arguments]      *)
parseArgs(args, celsius) ==
  IF Get(args, "switchcmd") = StrV(Str_sethkrtsoll) /\ celsius
  THEN IF HasParam(args)
       THEN LET low == toLowerCase(ToStr(Get(args, "param")))
                param == IF low = Str_off \/ low = Str_0 THEN IntV(FritzOff)
                         ELSE IF low = Str_on THEN IntV(FritzOn)
                         ELSE StrV(low)
                conv == celsiusOnOffToFritz(parseFloat(param))
            IN IF conv.err
               THEN [err |-> <<"Invalid temperature">>, args |-> args]
               ELSE [err |-> <<>>, args |-> Put(args, "param", conv.val)]
       ELSE [err |-> <<"No temperature was passed to the script">>, args |-> args]
  ELSE [err |-> <<>>, args |-> args]

(* challenge.startsWith('2$') *)
StartsWith2Dollar_FirstCharOnly(c) == Len(c) >= 1 /\ c[1] = "2"
StartsWith2Dollar(c) == Len(c) >= 2 /\ c[1] = "2" /\ c[2] = "$"

(* challenge.split('$').length *)
SplitCount(c) == 1 + Cardinality({i \in 1..Len(c) : c[i] = "$"})

(* calculatePbkdf2Response reads five '$'-separated fields; parsing the    *)
(* hex of a missing salt field throws                                      *)
Pbkdf2Throws(c) == SplitCount(c) < 5

(* Number(x) of the BlockTime text; null converts to 0 *)
ToNumber(x) == IF x.t = "none" THEN IntV(0) ELSE parseFloat(x)

----------------------------------------------------------------------------
(* State *)

VARIABLES
  useCelsius,         \* USE_CELSIUS_ON_OFF
  remember,           \* REMEMBER_CREDENTIALS
  keychain,           \* the stored credentials, or NoCredentials
  run,                \* number of runs of main started
  pc,                 \* position of main
  arguments,          \* main's arguments object
  credentials,        \* main's credentials
  state,              \* SessionID.create's login state
  challengeResponse,  \* SessionID.create's challengeResponse
  timer,              \* the scheduled lockout timer
  sid,                \* main's sid: the value returned by SessionID.create
  outcome,            \* how SessionID.create ended
  log,                \* the requests, prompts and notices of this run, in order
  err,                \* the error caught by main
  url,                \* the command request
  output,             \* the shortcut output
  input,              \* the start arguments as passed to this run
  infoReply,          \* what the login-info GET of this run came back with
  loginReply,         \* what the login POST of this run came back with
  response,           \* the body the command request came back with
  codec               \* a temperature conversion under test: input and results

vars == <<useCelsius, remember, keychain, run, pc, arguments, credentials, state,
          challengeResponse, timer, sid, outcome, log, err, url, output,
          input, infoReply, loginReply, response, codec>>

NoState == [challenge |-> None, blockTime |-> None, isPbkdf2 |-> FALSE]
NoProof == [kind |-> "none", challenge |-> <<>>, pass |-> ""]
NoTimer == [delay |-> 0, elapsed |-> 0, active |-> FALSE]
NoInfoReply == [status |-> "none", hasChallenge |-> FALSE, blockTime |-> None]
NoLoginReply == [status |-> "none", sid |-> None]
NoResponse == <<>>
CodecIdle == [dir |-> "none", step |-> 0, a |-> None, b |-> None, c |-> None]

Count(ev) == Cardinality({i \in 1..Len(log) : log[i] = ev})

Init ==
  /\ useCelsius \in BOOLEAN
  /\ remember \in BOOLEAN
  /\ keychain = NoCredentials
  /\ run = 1
  /\ pc = "getInputArgs"
  /\ arguments = <<>>
  /\ credentials = NoCredentials
  /\ state = NoState
  /\ challengeResponse = NoProof
  /\ timer = NoTimer
  /\ sid = None
  /\ outcome = "none"
  /\ log = <<>>
  /\ err = <<>>
  /\ url = NoUrl
  /\ output = <<>>
  /\ input = <<>>
  /\ infoReply = NoInfoReply
  /\ loginReply = NoLoginReply
  /\ response = NoResponse
  /\ codec = CodecIdle

(* main's catch block followed by Script.complete() *)
Caught(message, events) ==
  /\ err' = message
  /\ log' = log \o events \o <<"NOTIFY", "COMPLETE">>
  /\ pc' = "completed"

(* 'Failed to login! ' + err.message *)
Wrap_DropsCause(cause) == <<"Failed to login! ">>
Wrap(cause) == <<"Failed to login! ">> \o cause

(* SessionID.create's catch block: the wrapped error reaches main's catch  *)
LoginFailed(cause, events, how) ==
  /\ Caught(Wrap(cause), events)
  /\ outcome' = how

(* getInputArgs *)
GetInputArgs ==
  /\ pc = "getInputArgs"
  /\ \/ \E a \in StartArguments :
          /\ input' = a
          /\ arguments' = Delete(a, "scriptName")
          /\ pc' = "parseArgs"
          /\ UNCHANGED <<err, log>>
     \/ /\ Caught(<<"No start arguments were passed to the script">>, <<>>)
        /\ UNCHANGED <<arguments, input>>
  /\ UNCHANGED <<codec, response, useCelsius, remember, keychain, run, credentials, state,
                 challengeResponse, timer, sid, outcome, url, output,
                 infoReply, loginReply>>

(* parseArgs, as called by main *)
ParseArgs ==
  /\ pc = "parseArgs"
  /\ LET r == parseArgs(arguments, useCelsius)
     IN IF r.err # <<>>
        THEN Caught(r.err, <<>>) /\ UNCHANGED arguments
        ELSE /\ arguments' = r.args
             /\ pc' = "getCredentials"
             /\ UNCHANGED <<err, log>>
  /\ UNCHANGED <<codec, response, useCelsius, remember, keychain, run, credentials, state,
                 challengeResponse, timer, sid, outcome, url, output,
                 input, infoReply, loginReply>>

(* LoginManager.getCredentials up to the login alert *)
GetCredentials ==
  /\ pc = "getCredentials"
  /\ IF remember /\ HasRemembered(keychain)
     THEN /\ credentials' = keychain
          /\ pc' = "create"
          /\ UNCHANGED log
     ELSE /\ pc' = "loginAlert"
          /\ log' = Append(log, "PROMPT")
          /\ UNCHANGED credentials
  /\ UNCHANGED <<codec, response, useCelsius, remember, keychain, run, arguments, state,
                 challengeResponse, timer, sid, outcome, err, url, output,
                 input, infoReply, loginReply>>

(* LoginManager.showLoginAlert answered: Cancel makes main return *)
LoginAlert ==
  /\ pc = "loginAlert"
  /\ \/ /\ pc' = "returned"
        /\ UNCHANGED credentials
     \/ \E c \in Credentials :
          /\ credentials' = c
          /\ pc' = "create"
  /\ UNCHANGED <<codec, response, useCelsius, remember, keychain, run, arguments, state,
                 challengeResponse, timer, sid, outcome, log, err, url, output,
                 input, infoReply, loginReply>>

(* challenge.startsWith throws when no Challenge text was found *)
StartsWithThrows_Never(c) == FALSE
StartsWithThrows(c) == c = None

(* SessionID.getLoginState: the GET and the parse of its response *)
GetLoginState ==
  /\ pc = "create"
  /\ \/ /\ LoginFailed(<<"The request failed">>, <<"GET">>, "Failed")
        /\ infoReply' = [status |-> "failed", hasChallenge |-> FALSE, blockTime |-> None]
        /\ UNCHANGED state
     \/ \E c \in ChallengeValues, b \in BlockTimeValues :
          /\ infoReply' = [status |-> "ok", hasChallenge |-> c # None, blockTime |-> b]
          /\ IF StartsWithThrows(c)
             THEN /\ LoginFailed(<<"null is not an object">>, <<"GET">>, "Failed")
                  /\ UNCHANGED state
             ELSE /\ state' = [challenge |-> c, blockTime |-> b,
                               isPbkdf2 |-> StartsWith2Dollar(c.s)]
                  /\ log' = Append(log, "GET")
                  /\ pc' = "solve"
                  /\ UNCHANGED <<err, outcome>>
  /\ UNCHANGED <<codec, response, useCelsius, remember, keychain, run, arguments, credentials,
                 challengeResponse, timer, sid, url, output, input, loginReply>>

(* what create does, in order, once the login state is there: the proof is *)
(* computed, and for a positive blockTime the notice is shown and the      *)
(* timer scheduled                                                         *)
SolveEvents_WaitFirst(strategy, blocked) ==
  IF blocked THEN <<"NOTICE", "WAIT", strategy>> ELSE <<strategy>>
SolveEvents(strategy, blocked) ==
  IF blocked THEN <<strategy, "NOTICE", "WAIT">> ELSE <<strategy>>

(* Timer.schedule(state.blockTime * 1000, ...) *)
TimerDelay_Millis(blockTime) == ToNumber(blockTime).n
TimerDelay(blockTime) == ToNumber(blockTime).n * 1000

(* SessionID.create from the strategy choice to the scheduling of the      *)
(* lockout timer.  calculateMd5Response uses Buffer and createHash of the  *)
(* host, which throws where the host does not provide them.                *)
Solve ==
  /\ pc = "solve"
  /\ LET strategy == IF state.isPbkdf2 THEN "PBKDF2" ELSE "MD5"
         blocked == NumGt(ToNumber(state.blockTime), 0)
     IN \E hostHasMd5 \in BOOLEAN :
          IF (state.isPbkdf2 /\ Pbkdf2Throws(state.challenge.s))
             \/ (~state.isPbkdf2 /\ ~hostHasMd5)
          THEN /\ LoginFailed(<<"undefined is not an object">>, <<strategy>>, "Failed")
               /\ UNCHANGED <<challengeResponse, timer>>
          ELSE /\ hostHasMd5
               /\ challengeResponse' = [kind |-> strategy, challenge |-> state.challenge.s,
                                        pass |-> credentials.pass]
               /\ log' = log \o SolveEvents(strategy, blocked)
               /\ IF blocked
                  THEN /\ timer' = [delay |-> TimerDelay(state.blockTime),
                                    elapsed |-> 0, active |-> TRUE]
                       /\ pc' = "waiting"
                  ELSE /\ pc' = "sendResponse"
                       /\ UNCHANGED timer
               /\ UNCHANGED <<err, outcome>>
  /\ UNCHANGED <<codec, response, useCelsius, remember, keychain, run, arguments, credentials,
                 state, sid, url, output, input, infoReply, loginReply>>

(* one second passes while the lockout timer runs *)
TimerTick ==
  /\ pc = "waiting"
  /\ timer.active
  /\ timer.elapsed * 1000 < timer.delay
  /\ timer' = [timer EXCEPT !.elapsed = @ + 1]
  /\ UNCHANGED <<codec, response, useCelsius, remember, keychain, run, pc, arguments, credentials,
                 state, challengeResponse, sid, outcome, log, err, url, output,
                 input, infoReply, loginReply>>

(* the timer's callback resolves the promise create awaits *)
TimerFire ==
  /\ pc = "waiting"
  /\ timer.active
  /\ timer.elapsed * 1000 >= timer.delay
  /\ timer' = [timer EXCEPT !.active = FALSE]
  /\ log' = Append(log, "RESUME")
  /\ pc' = "sendResponse"
  /\ UNCHANGED <<codec, response, useCelsius, remember, keychain, run, arguments, credentials,
                 state, challengeResponse, sid, outcome, err, url, output,
                 input, infoReply, loginReply>>

(* sid === '0000000000000000' *)
IsRejected_Never(s) == FALSE
IsRejected(s) == s = StrV(<<ZeroSid>>)

(* SessionID.sendResponse and the end of SessionID.create *)
SendResponse ==
  /\ pc = "sendResponse"
  /\ \/ /\ LoginFailed(<<"The request failed">>, <<"POST">>, "Failed")
        /\ loginReply' = [status |-> "failed", sid |-> None]
        /\ UNCHANGED sid
     \/ \E s \in SidValues :
          /\ loginReply' = [status |-> "ok", sid |-> s]
          /\ IF IsRejected(s)
             THEN /\ LoginFailed(<<"Wrong username or password">>, <<"POST">>, "Rejected")
                  /\ UNCHANGED sid
             ELSE /\ sid' = s
                  /\ outcome' = "Authenticated"
                  /\ log' = Append(log, "POST")
                  /\ pc' = "updateStoredCredentials"
                  /\ UNCHANGED err
  /\ state' = NoState
  /\ challengeResponse' = NoProof
  /\ UNCHANGED <<codec, response, useCelsius, remember, keychain, run, arguments, credentials,
                 timer, url, output, input, infoReply>>

(* LoginManager.updateStoredCredentials up to the remember alert *)
UpdateStoredCredentials ==
  /\ pc = "updateStoredCredentials"
  /\ IF remember
     THEN IF ~HasRemembered(keychain)
          THEN /\ pc' = "rememberAlert"
               /\ log' = Append(log, "REMEMBER?")
               /\ UNCHANGED keychain
          ELSE /\ pc' = "sendCommand"
               /\ UNCHANGED <<keychain, log>>
     ELSE /\ keychain' = NoCredentials
          /\ log' = Append(log, "REMOVE")
          /\ pc' = "sendCommand"
  /\ UNCHANGED <<codec, response, useCelsius, remember, run, arguments, credentials, state,
                 challengeResponse, timer, sid, outcome, err, url, output,
                 input, infoReply, loginReply>>

(* LoginManager.showRememberAlert answered, and saveCredentials on Yes:    *)
(* the second Keychain.set is skipped when the first one throws            *)
RememberAlert ==
  /\ pc = "rememberAlert"
  /\ \/ UNCHANGED <<keychain, log>>
     \/ \E stored \in {0, 1, 2} :
          /\ keychain' = [user |-> IF stored >= 1 THEN credentials.user ELSE keychain.user,
                          pass |-> IF stored >= 2 THEN credentials.pass ELSE keychain.pass]
          /\ log' = Append(log, "SAVE")
  /\ pc' = "sendCommand"
  /\ UNCHANGED <<codec, response, useCelsius, remember, run, arguments, credentials, state,
                 challengeResponse, timer, sid, outcome, err, url, output,
                 input, infoReply, loginReply>>

(* sendCommand: the request is built and sent *)
SendCommand ==
  /\ pc = "sendCommand"
  /\ url' = CommandUrl(sid, arguments)
  /\ log' = Append(log, "CMD")
  /\ pc' = "awaitResponse"
  /\ UNCHANGED <<codec, response, useCelsius, remember, keychain, run, arguments, credentials, state,
                 challengeResponse, timer, sid, outcome, err, output,
                 input, infoReply, loginReply>>

(* the command request ends: parseResponse, showNotification,             *)
(* Script.setShortcutOutput and Script.complete, or main's catch           *)
CommandResponse ==
  /\ pc = "awaitResponse"
  /\ \/ /\ Caught(<<"Failed to send command! ", "Error: The request failed">>, <<>>)
        /\ UNCHANGED <<output, response>>
     \/ \E r \in RawResponses :
          /\ response' = r
          /\ output' = parseResponse(r, Get(arguments, "switchcmd"), useCelsius)
          /\ log' = log \o <<"NOTIFY", "OUTPUT", "COMPLETE">>
          /\ pc' = "completed"
          /\ UNCHANGED err
  /\ UNCHANGED <<codec, useCelsius, remember, keychain, run, arguments, credentials, state,
                 challengeResponse, timer, sid, outcome, url,
                 input, infoReply, loginReply>>

(* the script is run again; only the keychain outlives a run, and the    *)
(* REMEMBER_CREDENTIALS setting may have been edited in between           *)
NewRun ==
  /\ pc \in {"completed", "returned"}
  /\ run < MaxRuns
  /\ run' = run + 1
  /\ pc' = "getInputArgs"
  /\ arguments' = <<>>
  /\ credentials' = NoCredentials
  /\ state' = NoState
  /\ challengeResponse' = NoProof
  /\ timer' = NoTimer
  /\ sid' = None
  /\ outcome' = "none"
  /\ log' = <<>>
  /\ err' = <<>>
  /\ url' = NoUrl
  /\ output' = <<>>
  /\ input' = <<>>
  /\ infoReply' = NoInfoReply
  /\ loginReply' = NoLoginReply
  /\ response' = NoResponse
  /\ remember' \in BOOLEAN
  /\ UNCHANGED <<codec, useCelsius, keychain>>

Next ==
  \/ GetInputArgs
  \/ ParseArgs
  \/ GetCredentials
  \/ LoginAlert
  \/ GetLoginState
  \/ Solve
  \/ TimerTick
  \/ TimerFire
  \/ SendResponse
  \/ UpdateStoredCredentials
  \/ RememberAlert
  \/ SendCommand
  \/ CommandResponse
  \/ NewRun

Spec == Init /\ [][Next]_vars

----------------------------------------------------------------------------
(* The temperature codec on its own: an input is drawn from a bounded set, *)
(* one conversion is applied to it and then the opposite one to the result *)

(* Celsius numbers: the quarter degrees from -2 to MaxCelsius, the tenths  *)
(* of a degree up to 40, and the two numbers the code reads as OFF and ON  *)
CelsiusInputs ==
  { NumV(n, 4) : n \in (0 - 8)..(4 * MaxCelsius) }
  \cup { NumV(n, 10) : n \in 0..400 }
  \cup { IntV(FritzOff), IntV(FritzOn) }

FritzInputs == { IntV(n) : n \in 0..MaxFritz }

CodecInit ==
  /\ useCelsius = TRUE
  /\ remember = TRUE
  /\ keychain = NoCredentials
  /\ run = 1
  /\ pc = "codec"
  /\ arguments = <<>>
  /\ credentials = NoCredentials
  /\ state = NoState
  /\ challengeResponse = NoProof
  /\ timer = NoTimer
  /\ sid = None
  /\ outcome = "none"
  /\ log = <<>>
  /\ err = <<>>
  /\ url = NoUrl
  /\ output = <<>>
  /\ input = <<>>
  /\ infoReply = NoInfoReply
  /\ loginReply = NoLoginReply
  /\ response = NoResponse
  /\ codec \in { [dir |-> "c2f", step |-> 0, a |-> x, b |-> None, c |-> None] :
                   x \in CelsiusInputs }
          \cup { [dir |-> "f2c", step |-> 0, a |-> x, b |-> None, c |-> None] :
                   x \in FritzInputs }

CodecPending == IF codec.step = 0 THEN codec.a ELSE codec.b

CodecStore(v) ==
  IF codec.step = 0 THEN [codec EXCEPT !.step = 1, !.b = v]
  ELSE [codec EXCEPT !.step = 2, !.c = v]

(* celsiusOnOffToFritz is applied to the pending value *)
ApplyToFritz ==
  /\ \/ codec.dir = "c2f" /\ codec.step = 0
     \/ codec.dir = "f2c" /\ codec.step = 1
  /\ codec' = CodecStore(celsiusOnOffToFritz(CodecPending).val)
  /\ UNCHANGED <<useCelsius, remember, keychain, run, pc, arguments, credentials,
                 state, challengeResponse, timer, sid, outcome, log, err, url,
                 output, input, infoReply, loginReply, response>>

(* fritzToCelsiusOnOff is applied to the pending value; parseInt reads its *)
(* argument as a string                                                    *)
ApplyToCelsius ==
  /\ \/ codec.dir = "f2c" /\ codec.step = 0
     \/ codec.dir = "c2f" /\ codec.step = 1
  /\ codec' = CodecStore(fritzToCelsiusOnOff(ToStr(CodecPending)))
  /\ UNCHANGED <<useCelsius, remember, keychain, run, pc, arguments, credentials,
                 state, challengeResponse, timer, sid, outcome, log, err, url,
                 output, input, infoReply, loginReply, response>>

CodecNext ==
  \/ ApplyToFritz
  \/ ApplyToCelsius

SpecCodec == CodecInit /\ [][CodecNext]_vars

----------------------------------------------------------------------------
(* Properties *)

Strategies == {"PBKDF2", "MD5"}
InLog(ev) == \E i \in 1..Len(log) : log[i] = ev
StrategyRuns == Count("PBKDF2") + Count("MD5")
Before(A, B) == \A i, j \in 1..Len(log) : (log[i] \in A /\ log[j] \in B) => i < j
ZeroSidReply == loginReply.status = "ok" /\ loginReply.sid = StrV(<<ZeroSid>>)
LockoutSeconds ==
  IF infoReply.blockTime = None THEN 0 ELSE DigitVal(infoReply.blockTime.s[1])

(* C1: SessionID.create never returns the all-zero SID; whenever the login *)
(* POST response carries it, create ends Rejected with the authentication  *)
(* error and no command request is sent in that run.                       *)
C1_ZeroSidRejected ==
  /\ sid # StrV(<<ZeroSid>>)
  /\ url.sid # <<ZeroSid>>
  /\ ZeroSidReply =>
       /\ outcome = "Rejected"
       /\ err = <<"Failed to login! ", "Wrong username or password">>
       /\ Count("CMD") = 0
       /\ url = NoUrl

C1_Witness == ZeroSidReply /\ pc = "completed"

(* C2: when the login POST response has no SID element, create raises a    *)
(* login failure, does not end Authenticated, and no command is sent.      *)
C2_MissingSidFails ==
  (loginReply.status = "ok" /\ loginReply.sid = None) =>
     /\ outcome = "Failed"
     /\ Count("CMD") = 0

(* C3 as stated: fetch, then the lockout wait, then the proof, then the    *)
(* POST: the proof is computed only after the wait has finished.           *)
C3_WaitBeforeSolve ==
  /\ Before({"GET"}, Strategies)
  /\ Before({"WAIT", "RESUME"}, Strategies)
  /\ Before(Strategies, {"POST"})

(* C3 amended: fetch, then the proof, then the lockout wait (only when the *)
(* lockout is > 0), then the POST: the proof is computed before the wait   *)
(* starts, and the POST is sent only after the proof is computed and the   *)
(* wait, if any, has finished.                                             *)
C3_SolveBeforeWait ==
  /\ Before({"GET"}, Strategies \cup {"NOTICE", "WAIT", "RESUME", "POST"})
  /\ Before(Strategies, {"NOTICE", "WAIT", "RESUME", "POST"})
  /\ Before({"NOTICE", "WAIT"}, {"RESUME", "POST"})
  /\ Before({"RESUME"}, {"POST"})
  /\ StrategyRuns > 0 => InLog("GET")
  /\ InLog("WAIT") => (StrategyRuns = 1 /\ LockoutSeconds > 0)
  /\ InLog("POST") => (StrategyRuns = 1 /\ Count("WAIT") = Count("RESUME"))
  /\ (InLog("POST") /\ LockoutSeconds > 0) => InLog("RESUME")

C3_Witness == InLog("RESUME") /\ InLog("POST") /\ outcome = "Authenticated"

(* C4: for a BlockTime of 0 or absent there is no wait and no waiting      *)
(* notice; for a BlockTime of N > 0 the login POST is sent only after one  *)
(* wait of exactly N seconds has elapsed.                                   *)
C4_LockoutWait ==
  /\ LockoutSeconds = 0 =>
       /\ ~InLog("WAIT") /\ ~InLog("NOTICE") /\ ~InLog("RESUME")
       /\ timer = NoTimer
  /\ (LockoutSeconds > 0 /\ InLog("POST")) =>
       /\ Count("WAIT") = 1 /\ Count("NOTICE") = 1 /\ Count("RESUME") = 1
       /\ Before({"RESUME"}, {"POST"})
       /\ timer.elapsed = LockoutSeconds
       /\ ~timer.active

C4_Witness == InLog("POST") /\ LockoutSeconds = 2 /\ timer.elapsed = 2

(* C5: create never retries: at most one login-info GET and one login POST *)
(* per invocation, and every failure inside create reaches main as exactly *)
(* one wrapped login failure that carries the cause's message.             *)
C5_Cause ==
  IF infoReply.status = "failed" THEN "The request failed"
  ELSE IF infoReply.status = "ok" /\ ~infoReply.hasChallenge THEN "null is not an object"
  ELSE IF loginReply.status = "failed" THEN "The request failed"
  ELSE IF ZeroSidReply THEN "Wrong username or password"
  ELSE "undefined is not an object"

C5_NoRetrySingleFailure ==
  /\ Count("GET") <= 1
  /\ Count("POST") <= 1
  /\ (infoReply.status = "failed" \/ loginReply.status = "failed") => outcome = "Failed"
  /\ outcome \in {"Failed", "Rejected"} =>
       /\ pc = "completed"
       /\ err = <<"Failed to login! ", C5_Cause>>
       /\ Count("NOTIFY") = 1
       /\ Count("CMD") = 0

C5_Witness ==
  /\ outcome = "Failed" /\ loginReply.status = "failed"
  /\ Count("GET") = 1 /\ Count("POST") = 1

(* C6: when the login-info response has no Challenge element, or the GET   *)
(* fails, create raises a login failure: no proof is computed, no login    *)
(* POST is sent and no command is dispatched.                              *)
C6_FetchFailure ==
  (infoReply.status = "failed" \/ (infoReply.status = "ok" /\ ~infoReply.hasChallenge)) =>
     /\ outcome = "Failed"
     /\ Len(err) = 2 /\ err[1] = "Failed to login! "
     /\ StrategyRuns = 0
     /\ challengeResponse = NoProof
     /\ Count("POST") = 0
     /\ Count("CMD") = 0

C6_Witness == infoReply.status = "ok" /\ ~infoReply.hasChallenge /\ pc = "completed"

(* C7: in a handshake that reaches Solving exactly one strategy runs, and  *)
(* it is PBKDF2 if and only if the fetched challenge starts with "2$".     *)
C7_OneStrategy ==
  /\ StrategyRuns <= 1
  /\ (pc \in {"waiting", "sendResponse"} \/ InLog("POST")) => StrategyRuns = 1
  /\ (StrategyRuns = 1 /\ state # NoState) =>
       LET c == state.challenge.s
           two == Len(c) >= 2 /\ SubSeq(c, 1, 2) = <<"2", "$">>
       IN /\ InLog("PBKDF2") <=> two
          /\ InLog("MD5") <=> ~two
          /\ challengeResponse # NoProof =>
               (challengeResponse.kind = (IF two THEN "PBKDF2" ELSE "MD5"))

C7_Witness ==
  /\ pc = "sendResponse" /\ challengeResponse.kind = "PBKDF2"
  /\ state.challenge.s = WellFormedPbkdf2

(* C8: at most one handshake and at most one command request per run; the  *)
(* command request is sent only after the handshake of the run returned a  *)
(* session token; none is sent when the prompt is cancelled or the         *)
(* handshake fails.                                                        *)
C8_OneHandshakeOneCommand ==
  /\ Count("GET") <= 1
  /\ Count("CMD") <= 1
  /\ InLog("CMD") =>
       /\ outcome = "Authenticated"
       /\ sid \in { StrV(<<x>>) : x \in Tokens }
       /\ Before({"GET", "POST"}, {"CMD"})
  /\ (pc = "returned" \/ outcome \in {"Failed", "Rejected"}) => ~InLog("CMD")

(* C9: verb sethkrtsoll, unit conversion on and no param: the run fails    *)
(* with the missing-parameter error before any credential prompt, login    *)
(* request or command request.                                             *)
C9_MissingParam ==
  (/\ pc \notin {"getInputArgs", "parseArgs"}
   /\ Get(input, "switchcmd") = StrV(Str_sethkrtsoll)
   /\ useCelsius
   /\ ~Has(input, "param")) =>
     /\ pc = "completed"
     /\ err = <<"No temperature was passed to the script">>
     /\ log = <<"NOTIFY", "COMPLETE">>
     /\ url = NoUrl

C9_Witness ==
  /\ err = <<"No temperature was passed to the script">>
  /\ Get(input, "switchcmd") = StrV(Str_sethkrtsoll)

(* C10: verb sethkrtsoll with unit conversion on: a param that is neither  *)
(* "on" nor "off" (any case) nor numeric fails with the invalid-value      *)
(* error, so no command with a non-numeric param is dispatched.            *)
C10_InvalidParamRejected ==
  (/\ pc \notin {"getInputArgs", "parseArgs"}
   /\ Get(input, "switchcmd") = StrV(Str_sethkrtsoll)
   /\ useCelsius
   /\ Has(input, "param")) =>
     LET p == toLowerCase(Get(input, "param").s)
     IN (p \notin {Str_on, Str_off} /\ \A i \in 1..Len(p) : p[i] \notin Digits) =>
          /\ pc = "completed"
          /\ err = <<"Invalid temperature">>
          /\ ~InLog("CMD")

(* numeric equality of two values, strings compared as strings *)
ValEq(x, y) ==
  /\ x.t = y.t
  /\ x.t = "str" => x.s = y.s
  /\ x.t = "num" => x.n * y.d = y.n * x.d
OnHalfGrid(x) == x.t = "num" /\ (2 * x.n) % x.d = 0
Within(x, lo, hi) == x.t = "num" /\ lo * x.d <= x.n /\ x.n <= hi * x.d
Encoded == codec.dir = "c2f" /\ codec.step >= 1
RoundTripped == codec.dir = "c2f" /\ codec.step = 2
DeviceValues == { IntV(n) : n \in 16..56 } \cup { IntV(253), IntV(254) }

(* C11 as stated: for every Celsius value c in [8, 36] that is a multiple  *)
(* of 0.5, fritzToCelsiusOnOff(celsiusOnOffToFritz(c)) equals c.           *)
C11_RoundTrip8to36 ==
  (RoundTripped /\ OnHalfGrid(codec.a) /\ Within(codec.a, 8, 36)) =>
     ValEq(codec.c, codec.a)

(* C11 amended: for every Celsius value c in [8, 28] that is a multiple of *)
(* 0.5, fritzToCelsiusOnOff(celsiusOnOffToFritz(c)) equals c.              *)
C11_RoundTrip8to28 ==
  (RoundTripped /\ OnHalfGrid(codec.a) /\ Within(codec.a, 8, 28)) =>
     ValEq(codec.c, codec.a)

C11_Witness == RoundTripped /\ codec.a = NumV(112, 4) /\ codec.b = IntV(56)

(* C12 as stated: every numeric Celsius input strictly less than 8 (for    *)
(* example 7.8) is converted to 253, never to a value in 16..56.           *)
C12_Below8IsOff ==
  (Encoded /\ NumLt(codec.a, 8)) => codec.b = IntV(253)

(* C12 amended: every numeric Celsius input whose half-degree rounding is  *)
(* less than 8, i.e. every input strictly less than 7.75 (for example      *)
(* 7.7), is converted to 253, never to a value in 16..56.                  *)
C12_RoundedBelow8IsOff ==
  (Encoded /\ codec.a.t = "num" /\ 4 * codec.a.n < 31 * codec.a.d) =>
     codec.b = IntV(253)

C12_Witness == Encoded /\ codec.a = NumV(77, 10) /\ codec.b = IntV(253)

(* C13: every numeric Celsius input whose half-degree rounding is greater  *)
(* than 28 is converted to 254, never to 253 nor to a value in 16..56,     *)
(* also where 16 + (c - 8) / 0.5 lands on 253 or 254.                      *)
C13_Above28IsOn ==
  (Encoded /\ codec.a.t = "num" /\ 4 * codec.a.n >= 113 * codec.a.d) =>
     codec.b = IntV(254)

(* C17: for every integer d in 16..56,                                     *)
(* celsiusOnOffToFritz(fritzToCelsiusOnOff(d)) equals d; and               *)
(* fritzToCelsiusOnOff maps 253 to "OFF", 254 to "ON", 16 to 8, 56 to 28.  *)
C17_InverseOnDeviceDomain ==
  (codec.dir = "f2c" /\ codec.step >= 1) =>
     /\ codec.a = IntV(253) => codec.b = StrV(<<"O","F","F">>)
     /\ codec.a = IntV(254) => codec.b = StrV(<<"O","N">>)
     /\ codec.a = IntV(16) => ValEq(codec.b, IntV(8))
     /\ codec.a = IntV(56) => ValEq(codec.b, IntV(28))
     /\ (codec.step = 2 /\ codec.a.n \in 16..56) => codec.c = codec.a

C17_Witness ==
  /\ codec.dir = "f2c" /\ codec.step = 2
  /\ codec.a = IntV(39) /\ ValEq(codec.b, NumV(195, 10))

(* C18: for every finite numeric input celsiusOnOffToFritz returns an      *)
(* integer in 16..56, or 253, or 254, and nothing else.                    *)
C18_DeviceNative ==
  (Encoded /\ codec.a.t = "num") => codec.b \in DeviceValues

C18_Witness == Encoded /\ codec.a = NumV(120, 4) /\ codec.b = IntV(254)

Keys(obj) == [i \in 1..Len(obj) |-> obj[i].k]
QueryParam == Get(url.query, "param")
SetTempRun ==
  /\ Get(input, "switchcmd") = StrV(Str_sethkrtsoll)
  /\ useCelsius
  /\ url # NoUrl
TokenValues == { StrV(<<x>>) : x \in Tokens }

(* C14 as stated: with unit conversion on, verb sethkrtsoll and param      *)
(* "19.5" the dispatched param is 38, and parseResponse of the raw         *)
(* response "38" for that verb is "Response: Heater set to 19(deg)C".      *)
C14_Dispatches38 ==
  /\ (SetTempRun /\ Get(input, "param") = StrV(<<"1","9",".","5">>)) =>
       QueryParam = <<"3","8">>
  /\ (SetTempRun /\ response = <<"3","8">>) =>
       output = <<"Response: ", "Heater set to ", "1", "9", "°C">>

(* C14 amended: with unit conversion on, verb sethkrtsoll and param        *)
(* "19.5" the dispatched param is 39, and parseResponse of the raw         *)
(* response "38" for that verb is "Response: Heater set to 19(deg)C".      *)
C14_Dispatches39 ==
  /\ (SetTempRun /\ Get(input, "param") = StrV(<<"1","9",".","5">>)) =>
       QueryParam = <<"3","9">>
  /\ (SetTempRun /\ response = <<"3","8">>) =>
       output = <<"Response: ", "Heater set to ", "1", "9", "°C">>

C14_Witness ==
  /\ SetTempRun /\ Get(input, "param") = StrV(<<"1","9",".","5">>)
  /\ QueryParam = <<"3","9">>
  /\ response = <<"3","8">>
  /\ output = <<"Response: ", "Heater set to ", "1", "9", "°C">>

(* C15: the command request carries sid first and then every key of the    *)
(* caller's command exactly once, in the order the caller gave them, also  *)
(* for keys that look like integers.                                       *)
C15_CallerKeyOrder ==
  url # NoUrl =>
    /\ url.sid = ToStr(sid)
    /\ Keys(url.query) = Keys(Delete(input, "scriptName"))

(* C16: with unit conversion on and verb sethkrtsoll, param "on" in any    *)
(* letter case is dispatched as 254, and param "off" in any letter case or *)
(* "0" is dispatched as 253.                                               *)
C16_Sentinels ==
  SetTempRun =>
    /\ Get(input, "param") \in { StrV(<<"o","n">>), StrV(<<"O","N">>), StrV(<<"o","N">>) } =>
         (QueryParam = <<"2","5","4">> /\ Get(arguments, "param") = IntV(254))
    /\ Get(input, "param") \in { StrV(<<"o","f","f">>), StrV(<<"O","f","f">>),
                                 StrV(<<"O","F","F">>), StrV(<<"0">>) } =>
         (QueryParam = <<"2","5","3">> /\ Get(arguments, "param") = IntV(253))

C16_Witness ==
  /\ SetTempRun /\ Get(input, "param") = StrV(<<"O","N">>)
  /\ QueryParam = <<"2","5","4">>

(* C19: the keychain changes only in a run whose handshake returned a      *)
(* session token, never after a cancelled prompt or a failed create; and   *)
(* credentials are saved only when remembering is enabled, none were       *)
(* stored and the user answered Yes.                                       *)
C19_KeychainOnlyAfterToken ==
  [][ keychain' # keychain =>
        /\ outcome = "Authenticated"
        /\ sid \in TokenValues
        /\ keychain' # NoCredentials =>
             (remember /\ ~HasRemembered(keychain) /\ pc = "rememberAlert") ]_vars

(* C20: every run of main ends with Script.complete() called, on every     *)
(* path: success, any thrown error, and the cancelled login prompt.        *)
C20_EveryRunCompletes ==
  pc \in {"completed", "returned"} => InLog("COMPLETE")

====
